---------------------------- MODULE Spec2Model ----------------------------
(***************************************************************************)
(* Leader lock and per-codebase locks of packages/core/src/lock/index.ts.  *)
(*                                                                         *)
(* Every process of the host runs its own copy of the module: its own      *)
(* isLeader, lockInterval and heldCodebaseLocks.  The processes share only *)
(* the lock files, which they reach through proper-lockfile (lock, unlock, *)
(* checkSync).  An async function is split at its await: the call step     *)
(* runs the code up to the await and leaves a task, the resume step        *)
(* performs the awaited adapter operation and runs the continuation.       *)
(***************************************************************************)
EXTENDS Naturals, Sequences, FiniteSets, Bags, TLC

(***************************************************************************)
(* Bounds of the model.                                                    *)
(***************************************************************************)
\* Async calls and signal listeners in flight on the host at once, in each
\* of the specifications below.
MaxTasks == 1
MaxLeaderTasks == 2
MaxCodebaseTasks == 1
MaxShutdownTasks == 1
MaxTimerTasks == 2
MaxNamingTasks == 1

Procs == {"p1", "p2"}

\* The working directory each process was started in (process.cwd()).
Dirs == {<<"w">>, <<"v">>}
Cwd(p) == IF p = "p1" THEN <<"w">> ELSE <<"v">>

\* Codebase paths the callers pass, as written by the caller.
Ids == {"a", "/w/./a"}

\* The syntax of each identifier: absolute or relative, and its segments.
IdSyntax(id) ==
    CASE id = "a"      -> [abs |-> FALSE, segs |-> <<"a">>]
      [] id = "/w/./a" -> [abs |-> TRUE,  segs |-> <<"w", ".", "a">>]

(***************************************************************************)
(* Paths.                                                                  *)
(***************************************************************************)
CONTEXT_DIR == "~/.context"
LOCK_FILE == CONTEXT_DIR \o "/leader.lock"
LOCKS_DIR == CONTEXT_DIR \o "/locks"

\* path.normalize on a segment list: "." and "" are dropped, ".." removes
\* the segment before it (and is dropped at the root).
RECURSIVE NormalizeSegs(_, _)
NormalizeSegs(done, rest) ==
    IF rest = <<>> THEN done
    ELSE LET s == Head(rest) IN
         IF s = "." \/ s = "" THEN NormalizeSegs(done, Tail(rest))
         ELSE IF s = ".."
              THEN NormalizeSegs(IF done = <<>> THEN done
                                 ELSE SubSeq(done, 1, Len(done) - 1), Tail(rest))
              ELSE NormalizeSegs(Append(done, s), Tail(rest))

RECURSIVE JoinSegs(_)
JoinSegs(segs) ==
    IF segs = <<>> THEN "" ELSE "/" \o Head(segs) \o JoinSegs(Tail(segs))

\* path.resolve(codebasePath) in a process whose working directory is dir.
resolve(dir, id) ==
    LET syn  == IdSyntax(id)
        segs == NormalizeSegs(<<>>, IF syn.abs THEN syn.segs ELSE dir \o syn.segs)
    IN  IF segs = <<>> THEN "/" ELSE JoinSegs(segs)

\* crypto.createHash('md5').update(s).digest('hex'): a digest with no
\* collision on the strings of the model.
md5hex(s) == "md5(" \o s \o ")"

\* A lock file named by the digest of the identifier as given.
getCodebaseLockPathRaw(dir, codebasePath) ==
    LOCKS_DIR \o "/" \o md5hex(codebasePath)

getCodebaseLockPath(dir, codebasePath) ==
    LET normalizedPath == resolve(dir, codebasePath)
        hash == md5hex(normalizedPath)
    IN  LOCKS_DIR \o "/" \o hash

CodebaseLockPaths == {getCodebaseLockPath(d, id) : d \in Dirs, id \in Ids}
LockPaths == {LOCK_FILE} \cup CodebaseLockPaths

(***************************************************************************)
(* State.                                                                  *)
(***************************************************************************)
VARIABLES
    status,             \* per process: "running", "exited" or "crashed"
    isLeader,           \* per process: let isLeader
    lockInterval,       \* per process: TRUE iff lockInterval holds a timer
    intervals,          \* per process: the intervals setInterval has scheduled
                        \* and clearInterval has not cleared
    heldCodebaseLocks,  \* per process: the Map, as its entries in insertion order
    tasks,              \* per process: the bag of suspended async calls
    lockFile,           \* per lock path: Free, Stale or the process that holds it
    last,               \* the value the latest call of an application returned
                        \* (NoRet once a process shut down after it)
    raceOnly,           \* TRUE while all that has happened on the host is
                        \* applications calling acquireLock(), once each
    exited,             \* per process: how it exited and what it still held
    failed              \* per process: "no" attempt of acquireLock() has failed,
                        \* the "latest" one has, or an "earlier" one only
                        \* (history, recorded by SpecTimer alone)

vars == <<status, isLeader, lockInterval, intervals, heldCodebaseLocks, tasks,
          lockFile, last, raceOnly, exited, failed>>

Free == "free"      \* no lock file on disk
Stale == "stale"    \* a lock file on disk that no live process holds
NoPath == ""        \* Map.get of a missing key
NoId == ""

(***************************************************************************)
(* The Map heldCodebaseLocks: entries [key, lockPath] in insertion order.  *)
(***************************************************************************)
MapKeys(m) == [i \in 1..Len(m) |-> m[i].key]

MapHas(m, k) == \E i \in 1..Len(m) : m[i].key = k

MapGet(m, k) ==
    IF MapHas(m, k) THEN (CHOOSE e \in {m[i] : i \in 1..Len(m)} : e.key = k).lockPath
    ELSE NoPath

MapSet(m, k, v) ==
    IF MapHas(m, k)
    THEN [i \in 1..Len(m) |-> IF m[i].key = k THEN [key |-> k, lockPath |-> v] ELSE m[i]]
    ELSE Append(m, [key |-> k, lockPath |-> v])

MapDelete(m, k) == SelectSeq(m, LAMBDA e : e.key # k)

(***************************************************************************)
(* proper-lockfile, as the module uses it.  A lock path is Free (no lock   *)
(* file), held by a live process, or Stale (the lock file is on disk and   *)
(* no live process holds it).                                              *)
(***************************************************************************)
\* lockfile.lock(path, {retries: 0}): fails fast when the lock is held, by
\* the calling process too; a stale lock file is taken over.
lockSucceeds(lf, path) == lf[path] \in {Free, Stale}

lockfileLock(lf, p, path) ==
    IF lockSucceeds(lf, path) THEN [lf EXCEPT ![path] = p] ELSE lf

\* lockfile.unlock(path): fails when the caller does not hold the lock, or
\* (fault) when removing the lock file fails; after a failed unlock the
\* caller holds nothing: the lock file it could not remove is left stale.
unlockSucceeds(lf, p, path, fault) == lf[path] = p /\ ~fault

lockfileUnlock(lf, p, path, fault) ==
    IF lf[path] # p THEN lf
    ELSE [lf EXCEPT ![path] = IF fault THEN Stale ELSE Free]

\* lockfile.checkSync(path): TRUE iff a live process holds the lock.
lockfileCheckSync(lf, path) == lf[path] \in Procs

\* fs.existsSync(path + ".lock")
existsSync(lf, path) == lf[path] # Free

HeldBy(lf, p) == {path \in LockPaths : lf[path] = p}

(***************************************************************************)
(* Tasks and return values.                                                *)
(***************************************************************************)
\* A suspended call of fn.  sig names the signal whose listener made the
\* call ("none": the application or the retry timer) and keys the entries
\* of its snapshot that releaseAllCodebaseLocks has still to visit.  Of a
\* listener the task also remembers held0, what the process held when the
\* signal arrived, and solo, whether the listener has been the only task of
\* the process since.
Task(fn, id, lockPath, sig, keys, held0, solo) ==
    [fn |-> fn, id |-> id, lockPath |-> lockPath, sig |-> sig, keys |-> keys,
     held0 |-> held0, solo |-> solo]

\* What a process holds at the OS level: n, how many locks, and known,
\* whether its memory records each of them (isLeader for the leader lock,
\* an entry of the Map for a codebase lock).
Held0(lf, p, m, leader) ==
    [n |-> Cardinality(HeldBy(lf, p)),
     known |-> \A path \in HeldBy(lf, p) :
                 IF path = LOCK_FILE THEN leader
                 ELSE \E i \in 1..Len(m) : m[i].lockPath = path]

NoHeld0 == [n |-> 0, known |-> FALSE]

Call(fn, id, lockPath) == Task(fn, id, lockPath, "none", <<>>, NoHeld0, FALSE)

Ret(p, fn, id, val) == [proc |-> p, fn |-> fn, id |-> id, val |-> val]

NoRet == Ret("none", "none", NoId, "void")

\* What a release returns that found nothing to release: void as well, told
\* apart here from the void of a release that called the adapter.
NoOp == "void (nothing held)"

Running(p) == status[p] = "running"

RECURSIVE InFlight(_)
InFlight(ps) ==
    IF ps = {} THEN 0
    ELSE LET q == CHOOSE q \in ps : TRUE
         IN  BagCardinality(tasks[q]) + InFlight(ps \ {q})

\* The tasks of a bag, no listener among them solo any more.
RECURSIVE Overlapped(_, _)
Overlapped(bag, ts) ==
    IF ts = {} THEN EmptyBag
    ELSE LET t == CHOOSE t \in ts : TRUE
             n == CopiesIn(t, bag)
             u == [t EXCEPT !.solo = FALSE]
         IN  [x \in {u} |-> n] (+) Overlapped(bag, ts \ {t})

AddTask(p, t) ==
    [tasks EXCEPT ![p] = Overlapped(@, BagToSet(@)) (+) SetToBag({t})]

DropTask(p, t) == [tasks EXCEPT ![p] = @ (-) SetToBag({t})]

Suspended(p, fn, sigs) ==
    {t \in BagToSet(tasks[p]) : t.fn = fn /\ t.sig \in sigs}

\* The process has not called acquireLock() yet (while raceOnly).
NotAttempted(p) ==
    /\ ~isLeader[p]
    /\ ~lockInterval[p]
    /\ tasks[p] = EmptyBag

(***************************************************************************)
(* Leader lock.                                                            *)
(***************************************************************************)
\* acquireLock() up to its await: by the application or by the timer.
acquireLockBegin(p) ==
    /\ Running(p)
    /\ IF isLeader[p]
       THEN /\ last' = Ret(p, "acquireLock", NoId, "true")
            /\ UNCHANGED tasks
       ELSE /\ tasks' = AddTask(p, Call("acquireLock", NoId, LOCK_FILE))
            /\ UNCHANGED last
    /\ UNCHANGED <<status, isLeader, lockInterval, intervals, heldCodebaseLocks,
                   lockFile, exited, failed>>

\* The application calls acquireLock().
acquireLock(p) ==
    /\ acquireLockBegin(p)
    /\ raceOnly' = (raceOnly /\ NotAttempted(p))

\* The interval set by setInterval(acquireLock, 5000) fires.
lockIntervalTick(p) ==
    /\ intervals[p] > 0
    /\ acquireLockBegin(p)
    /\ UNCHANGED raceOnly

\* isLeader and lockInterval after the awaited lock of acquireLock: the try
\* body (ok) clears the interval, the catch sets one if there is none.
\* A try body that does not record the leadership it obtained.
acquireLockLeaderNever(ok) == FALSE

acquireLockLeader(ok) == ok

\* A try body that leaves the interval scheduled.
acquireLockIntervalNoClear(interval, ok) ==
    IF ok THEN interval
    ELSE IF ~interval THEN TRUE ELSE interval

\* A catch that schedules no retry.
acquireLockIntervalNoRetry(interval, ok) ==
    IF ok THEN FALSE ELSE interval

acquireLockInterval(interval, ok) ==
    IF ok THEN FALSE
    ELSE IF ~interval THEN TRUE ELSE interval

\* A catch that schedules an interval whether or not lockInterval holds one.
acquireLockIntervalsUnguarded(n, interval, ok) ==
    IF ok THEN (IF interval THEN n - 1 ELSE n)
    ELSE n + 1

\* The scheduled intervals after the awaited lock of acquireLock: the try
\* body clears the one lockInterval holds, the catch schedules one if
\* lockInterval holds none.
acquireLockIntervals(n, interval, ok) ==
    IF ok THEN (IF interval THEN n - 1 ELSE n)
    ELSE IF ~interval THEN n + 1 ELSE n

\* acquireLock() from the adapter's answer on.
acquireLockResume(p) ==
    /\ Running(p)
    /\ \E t \in Suspended(p, "acquireLock", {"none"}) :
        LET ok == lockSucceeds(lockFile, LOCK_FILE) IN
        /\ tasks' = DropTask(p, t)
        /\ lockFile' = lockfileLock(lockFile, p, LOCK_FILE)
        /\ isLeader' = [isLeader EXCEPT ![p] = acquireLockLeader(ok)]
        /\ lockInterval' = [lockInterval EXCEPT ![p] = acquireLockInterval(@, ok)]
        /\ intervals' = [intervals EXCEPT ![p] =
               acquireLockIntervals(@, lockInterval[p], ok)]
        /\ last' = Ret(p, "acquireLock", NoId, IF ok THEN "true" ELSE "false")
    /\ UNCHANGED <<status, heldCodebaseLocks, raceOnly, exited>>

\* acquireLockResume as the other specifications take it, and as SpecTimer
\* takes it: with the history of failed attempts.
acquireLockResumed(p) == acquireLockResume(p) /\ UNCHANGED failed

acquireLockResumeRecorded(p) ==
    /\ acquireLockResume(p)
    /\ failed' = [failed EXCEPT ![p] =
                    IF ~lockSucceeds(lockFile, LOCK_FILE) THEN "latest"
                    ELSE IF @ = "no" THEN "no" ELSE "earlier"]

\* The application calls releaseLock(): up to its await.
releaseLock(p) ==
    /\ Running(p)
    /\ IF isLeader[p]
       THEN /\ tasks' = AddTask(p, Call("releaseLock", NoId, LOCK_FILE))
            /\ UNCHANGED last
       ELSE /\ last' = Ret(p, "releaseLock", NoId, NoOp)
            /\ UNCHANGED tasks
    /\ raceOnly' = FALSE
    /\ UNCHANGED <<status, isLeader, lockInterval, intervals, heldCodebaseLocks,
                   lockFile, exited, failed>>

\* isLeader after the awaited unlock of releaseLock: the assignment is in
\* the try body, after the await.
releaseLockLeader(leader, ok) == IF ok THEN FALSE ELSE leader

\* releaseLock() from the adapter's answer on.
releaseLockResume(p, fault) ==
    /\ Running(p)
    /\ \E t \in Suspended(p, "releaseLock", {"none"}) :
        /\ tasks' = DropTask(p, t)
        /\ lockFile' = lockfileUnlock(lockFile, p, LOCK_FILE, fault)
        /\ isLeader' = [isLeader EXCEPT ![p] =
               releaseLockLeader(@, unlockSucceeds(lockFile, p, LOCK_FILE, fault))]
        /\ last' = Ret(p, "releaseLock", NoId, "void")
    /\ raceOnly' = FALSE
    /\ UNCHANGED <<status, lockInterval, intervals, heldCodebaseLocks, exited, failed>>

isCurrentProcessLeader(p) == isLeader[p]

getLockFilePath == LOCK_FILE

(***************************************************************************)
(* Codebase locks.                                                         *)
(***************************************************************************)
\* acquireCodebaseLock(codebasePath) up to its await.
acquireCodebaseLock(p, codebasePath) ==
    /\ Running(p)
    /\ IF MapHas(heldCodebaseLocks[p], codebasePath)
       THEN /\ last' = Ret(p, "acquireCodebaseLock", codebasePath, "true")
            /\ UNCHANGED tasks
       ELSE /\ tasks' = AddTask(p, Call("acquireCodebaseLock", codebasePath,
                                        getCodebaseLockPath(Cwd(p), codebasePath)))
            /\ UNCHANGED last
    /\ raceOnly' = FALSE
    /\ UNCHANGED <<status, isLeader, lockInterval, intervals, heldCodebaseLocks,
                   lockFile, exited, failed>>

\* An acquireCodebaseLock that records the lock whatever the adapter answered.
acquireCodebaseLockMapAlways(m, codebasePath, lockPath, ok) ==
    MapSet(m, codebasePath, lockPath)

\* The Map after the awaited lock of acquireCodebaseLock(codebasePath).
acquireCodebaseLockMap(m, codebasePath, lockPath, ok) ==
    IF ok THEN MapSet(m, codebasePath, lockPath) ELSE m

\* acquireCodebaseLock from the adapter's answer on.
acquireCodebaseLockResume(p) ==
    /\ Running(p)
    /\ \E t \in Suspended(p, "acquireCodebaseLock", {"none"}) :
        LET ok == lockSucceeds(lockFile, t.lockPath) IN
        /\ tasks' = DropTask(p, t)
        /\ lockFile' = lockfileLock(lockFile, p, t.lockPath)
        /\ heldCodebaseLocks' = [heldCodebaseLocks EXCEPT ![p] =
               acquireCodebaseLockMap(@, t.id, t.lockPath, ok)]
        /\ last' = Ret(p, "acquireCodebaseLock", t.id, IF ok THEN "true" ELSE "false")
    /\ raceOnly' = FALSE
    /\ UNCHANGED <<status, isLeader, lockInterval, intervals, exited, failed>>

\* releaseCodebaseLock(codebasePath) up to its await.
releaseCodebaseLock(p, codebasePath) ==
    /\ Running(p)
    /\ LET lockPath == MapGet(heldCodebaseLocks[p], codebasePath) IN
       IF lockPath = NoPath
       THEN /\ last' = Ret(p, "releaseCodebaseLock", codebasePath, NoOp)
            /\ UNCHANGED tasks
       ELSE /\ tasks' = AddTask(p, Call("releaseCodebaseLock", codebasePath, lockPath))
            /\ UNCHANGED last
    /\ raceOnly' = FALSE
    /\ UNCHANGED <<status, isLeader, lockInterval, intervals, heldCodebaseLocks,
                   lockFile, exited, failed>>

\* The Map after the awaited unlock of releaseCodebaseLock(codebasePath):
\* the delete is in the try body, after the await.
releaseCodebaseLockMap(m, codebasePath, ok) ==
    IF ok THEN MapDelete(m, codebasePath) ELSE m

\* releaseCodebaseLock from the adapter's answer on.
releaseCodebaseLockResume(p, fault) ==
    /\ Running(p)
    /\ \E t \in Suspended(p, "releaseCodebaseLock", {"none"}) :
        /\ tasks' = DropTask(p, t)
        /\ lockFile' = lockfileUnlock(lockFile, p, t.lockPath, fault)
        /\ heldCodebaseLocks' = [heldCodebaseLocks EXCEPT ![p] =
               releaseCodebaseLockMap(@, t.id,
                   unlockSucceeds(lockFile, p, t.lockPath, fault))]
        /\ last' = Ret(p, "releaseCodebaseLock", t.id, "void")
    /\ raceOnly' = FALSE
    /\ UNCHANGED <<status, isLeader, lockInterval, intervals, exited, failed>>

\* The value isCodebaseLocked(codebasePath) returns; checkThrows: the
\* adapter's check fails on the lock file (a stat error).
isCodebaseLockedValue(lf, dir, codebasePath, checkThrows) ==
    LET lockPath == getCodebaseLockPath(dir, codebasePath) IN
    IF ~existsSync(lf, lockPath) THEN FALSE
    ELSE IF checkThrows THEN FALSE
    ELSE LET held == lockfileCheckSync(lf, lockPath)   \* the value is dropped
         IN  TRUE

isCodebaseLocked(p, codebasePath, checkThrows) ==
    /\ Running(p)
    /\ last' = Ret(p, "isCodebaseLocked", codebasePath,
                   IF isCodebaseLockedValue(lockFile, Cwd(p), codebasePath, checkThrows)
                   THEN "true" ELSE "false")
    /\ raceOnly' = FALSE
    /\ UNCHANGED <<status, isLeader, lockInterval, intervals, heldCodebaseLocks,
                   tasks, lockFile, exited, failed>>

(***************************************************************************)
(* Shutdown: process.on('exit' | 'SIGINT' | 'SIGTERM').                    *)
(***************************************************************************)
Signals == {"SIGINT", "SIGTERM"}

NotExited == [by |-> "none", solo |-> FALSE, held0 |-> NoHeld0, held |-> {}]

\* The process ends: what it still holds is orphaned (removed: the lock
\* files the system takes away, the others are left stale) and its memory
\* is gone.
Terminate(p, lf, how) ==
    /\ \E removed \in SUBSET HeldBy(lf, p) :
         lockFile' = [path \in LockPaths |->
                        IF lf[path] = p
                        THEN (IF path \in removed THEN Free ELSE Stale)
                        ELSE lf[path]]
    /\ status' = [status EXCEPT ![p] = how]
    /\ isLeader' = [isLeader EXCEPT ![p] = FALSE]
    /\ lockInterval' = [lockInterval EXCEPT ![p] = FALSE]
    /\ intervals' = [intervals EXCEPT ![p] = 0]
    /\ failed' = [failed EXCEPT ![p] = "no"]
    /\ heldCodebaseLocks' = [heldCodebaseLocks EXCEPT ![p] = <<>>]
    /\ tasks' = [tasks EXCEPT ![p] = EmptyBag]
    /\ raceOnly' = FALSE

\* process.exit(), and the 'exit' listener: an async listener runs up to
\* its first await, and the unlock it waits for is never answered.
processExit(p, lf, by, held0, solo) ==
    /\ Terminate(p, lf, "exited")
    /\ exited' = [exited EXCEPT ![p] =
                    [by |-> by, solo |-> solo, held0 |-> held0, held |-> HeldBy(lf, p)]]
    /\ last' = NoRet

\* releaseAllCodebaseLocks: the keys of the snapshot still to visit, from
\* the first one releaseCodebaseLock has to wait for (a key that is no
\* longer in the Map returns at once).
RECURSIVE releaseAllCodebaseLocks(_, _)
releaseAllCodebaseLocks(m, keys) ==
    IF keys = <<>> THEN <<>>
    ELSE IF MapHas(m, Head(keys)) THEN keys
    ELSE releaseAllCodebaseLocks(m, Tail(keys))

\* A listener that calls process.exit() without releasing the leader lock.
shutdownNextNoReleaseLock(m, keys, leader, sig, held0, solo) ==
    LET ks == releaseAllCodebaseLocks(m, keys) IN
    IF ks # <<>>
    THEN Task("releaseCodebaseLock", Head(ks), MapGet(m, Head(ks)), sig, Tail(ks),
              held0, solo)
    ELSE Task("process.exit", NoId, NoPath, sig, <<>>, held0, solo)

\* A listener that releases the leader lock before the codebase locks.
shutdownNextLeaderFirst(m, keys, leader, sig, held0, solo) ==
    IF leader
    THEN Task("releaseLock", NoId, LOCK_FILE, sig, keys, held0, solo)
    ELSE LET ks == releaseAllCodebaseLocks(m, keys) IN
         IF ks # <<>>
         THEN Task("releaseCodebaseLock", Head(ks), MapGet(m, Head(ks)), sig,
                   Tail(ks), held0, solo)
         ELSE Task("process.exit", NoId, NoPath, sig, <<>>, held0, solo)

\* Where a signal listener suspends next, given the snapshot keys still
\* to release: in releaseCodebaseLock, in releaseLock, or not at all
\* (process.exit() is reached).
shutdownNext(m, keys, leader, sig, held0, solo) ==
    LET ks == releaseAllCodebaseLocks(m, keys) IN
    IF ks # <<>>
    THEN Task("releaseCodebaseLock", Head(ks), MapGet(m, Head(ks)), sig, Tail(ks),
              held0, solo)
    ELSE IF leader
    THEN Task("releaseLock", NoId, LOCK_FILE, sig, <<>>, held0, solo)
    ELSE Task("process.exit", NoId, NoPath, sig, <<>>, held0, solo)

\* The listener goes on to its next await, or exits the process.
shutdownContinue(p, others, next, lf, m, leader) ==
    IF next.fn = "process.exit"
    THEN /\ processExit(p, lf, next.sig, next.held0, next.solo)
    ELSE /\ tasks' = [tasks EXCEPT ![p] = others (+) SetToBag({next})]
         /\ lockFile' = lf
         /\ heldCodebaseLocks' = [heldCodebaseLocks EXCEPT ![p] = m]
         /\ isLeader' = [isLeader EXCEPT ![p] = leader]
         /\ last' = NoRet
         /\ raceOnly' = FALSE
         /\ UNCHANGED <<status, lockInterval, intervals, exited, failed>>

\* SIGINT or SIGTERM arrives: the listener runs to its first await.
signal(p, sig) ==
    /\ Running(p)
    /\ shutdownContinue(p, Overlapped(tasks[p], BagToSet(tasks[p])),
           shutdownNext(heldCodebaseLocks[p], MapKeys(heldCodebaseLocks[p]),
                        isLeader[p], sig,
                        Held0(lockFile, p, heldCodebaseLocks[p], isLeader[p]),
                        tasks[p] = EmptyBag),
           lockFile, heldCodebaseLocks[p], isLeader[p])

\* A listener whose releaseAllCodebaseLocks gives up at the first failed unlock.
shutdownReleaseCodebaseLockResumeAbort(p, fault) ==
    /\ Running(p)
    /\ \E t \in Suspended(p, "releaseCodebaseLock", Signals) :
        LET ok == unlockSucceeds(lockFile, p, t.lockPath, fault)
            lf == lockfileUnlock(lockFile, p, t.lockPath, fault)
            m  == releaseCodebaseLockMap(heldCodebaseLocks[p], t.id, ok)
        IN  shutdownContinue(p, tasks[p] (-) SetToBag({t}),
                shutdownNext(m, IF ok THEN t.keys ELSE <<>>, isLeader[p],
                             t.sig, t.held0, t.solo),
                lf, m, isLeader[p])

\* A listener suspended in releaseCodebaseLock is answered.
shutdownReleaseCodebaseLockResume(p, fault) ==
    /\ Running(p)
    /\ \E t \in Suspended(p, "releaseCodebaseLock", Signals) :
        LET ok == unlockSucceeds(lockFile, p, t.lockPath, fault)
            lf == lockfileUnlock(lockFile, p, t.lockPath, fault)
            m  == releaseCodebaseLockMap(heldCodebaseLocks[p], t.id, ok)
        IN  shutdownContinue(p, tasks[p] (-) SetToBag({t}),
                shutdownNext(m, t.keys, isLeader[p], t.sig, t.held0, t.solo),
                lf, m, isLeader[p])

\* A listener suspended in releaseLock is answered; process.exit() follows.
shutdownReleaseLockResume(p, fault) ==
    /\ Running(p)
    /\ \E t \in Suspended(p, "releaseLock", Signals) :
        processExit(p, lockfileUnlock(lockFile, p, LOCK_FILE, fault),
                    t.sig, t.held0, t.solo)

\* The application ends the process (process.exit(), or nothing is left
\* to run): only the 'exit' listener runs.
exit(p) ==
    /\ Running(p)
    /\ processExit(p, lockFile, "exit",
                   Held0(lockFile, p, heldCodebaseLocks[p], isLeader[p]),
                   tasks[p] = EmptyBag)

\* The process is killed: no listener runs.
crash(p) ==
    /\ Running(p)
    /\ Terminate(p, lockFile, "crashed")
    /\ last' = NoRet
    /\ UNCHANGED exited

(***************************************************************************)
(* The system.                                                             *)
(***************************************************************************)
Init ==
    /\ status = [p \in Procs |-> "running"]
    /\ isLeader = [p \in Procs |-> FALSE]
    /\ lockInterval = [p \in Procs |-> FALSE]
    /\ intervals = [p \in Procs |-> 0]
    /\ heldCodebaseLocks = [p \in Procs |-> <<>>]
    /\ tasks = [p \in Procs |-> EmptyBag]
    /\ lockFile = [path \in LockPaths |-> Free]
    /\ last = NoRet
    /\ raceOnly = TRUE
    /\ exited = [p \in Procs |-> NotExited]
    /\ failed = [p \in Procs |-> "no"]

LeaderStep(p) ==
    \/ acquireLock(p)
    \/ lockIntervalTick(p)
    \/ acquireLockResumed(p)
    \/ releaseLock(p)
    \/ \E fault \in BOOLEAN : releaseLockResume(p, fault)

CodebaseStep(p) ==
    \/ \E id \in Ids : acquireCodebaseLock(p, id)
    \/ acquireCodebaseLockResume(p)
    \/ \E id \in Ids : releaseCodebaseLock(p, id)
    \/ \E fault \in BOOLEAN : releaseCodebaseLockResume(p, fault)
    \/ \E id \in Ids, checkThrows \in BOOLEAN : isCodebaseLocked(p, id, checkThrows)

\* The whole module (index.ts).
Next ==
    /\ \E p \in Procs :
        \/ LeaderStep(p)
        \/ CodebaseStep(p)
        \/ \E sig \in Signals : signal(p, sig)
        \/ \E fault \in BOOLEAN : shutdownReleaseCodebaseLockResume(p, fault)
        \/ \E fault \in BOOLEAN : shutdownReleaseLockResume(p, fault)
        \/ exit(p)
        \/ crash(p)
    /\ InFlight(Procs)' <= MaxTasks

\* The leader lock alone (the module before it had codebase locks).
NextLeader ==
    /\ \E p \in Procs :
        \/ LeaderStep(p)
        \/ \E sig \in Signals : signal(p, sig)
        \/ \E fault \in BOOLEAN : shutdownReleaseLockResume(p, fault)
        \/ exit(p)
        \/ crash(p)
    /\ InFlight(Procs)' <= MaxLeaderTasks

\* Processes that use the codebase locks and never ask for leadership.
NextCodebase ==
    /\ \E p \in Procs :
        \/ CodebaseStep(p)
        \/ \E sig \in Signals : signal(p, sig)
        \/ \E fault \in BOOLEAN : shutdownReleaseCodebaseLockResume(p, fault)
        \/ exit(p)
        \/ crash(p)
    /\ InFlight(Procs)' <= MaxCodebaseTasks

\* Processes that take locks and leave every release to the shutdown.
NextShutdown ==
    /\ \E p \in Procs :
        \/ acquireLock(p)
        \/ lockIntervalTick(p)
        \/ acquireLockResumed(p)
        \/ \E id \in Ids : acquireCodebaseLock(p, id)
        \/ acquireCodebaseLockResume(p)
        \/ \E sig \in Signals : signal(p, sig)
        \/ \E fault \in BOOLEAN : shutdownReleaseCodebaseLockResume(p, fault)
        \/ \E fault \in BOOLEAN : shutdownReleaseLockResume(p, fault)
        \/ exit(p)
    /\ InFlight(Procs)' <= MaxShutdownTasks

Spec == Init /\ [][Next]_vars
SpecLeader == Init /\ [][NextLeader]_vars
SpecCodebase == Init /\ [][NextCodebase]_vars
SpecShutdown == Init /\ [][NextShutdown]_vars

\* The leader lock of processes that run on, with the history of their
\* failed attempts.
NextTimer ==
    /\ \E p \in Procs :
        \/ acquireLock(p)
        \/ lockIntervalTick(p)
        \/ acquireLockResumeRecorded(p)
        \/ releaseLock(p)
        \/ \E fault \in BOOLEAN : releaseLockResume(p, fault)
    /\ InFlight(Procs)' <= MaxTimerTasks

SpecTimer == Init /\ [][NextTimer]_vars

\* Processes that take and release codebase locks and run on.
NextNaming ==
    /\ \E p \in Procs :
        \/ \E id \in Ids : acquireCodebaseLock(p, id)
        \/ acquireCodebaseLockResume(p)
        \/ \E id \in Ids : releaseCodebaseLock(p, id)
        \/ \E fault \in BOOLEAN : releaseCodebaseLockResume(p, fault)
    /\ InFlight(Procs)' <= MaxNamingTasks

SpecNaming == Init /\ [][NextNaming]_vars

\* The leader lock under fair scheduling: an interval that stays scheduled
\* fires again and again, and the adapter answers every call.
FairLeader ==
    \A p \in Procs :
        /\ SF_vars(lockIntervalTick(p) /\ InFlight(Procs)' <= MaxLeaderTasks)
        /\ WF_vars(acquireLockResumed(p))
        /\ WF_vars(\E fault \in BOOLEAN : releaseLockResume(p, fault))
        /\ WF_vars(\E fault \in BOOLEAN : shutdownReleaseLockResume(p, fault))

SpecLeaderFair == SpecLeader /\ FairLeader

(***************************************************************************)
(* Properties.                                                             *)
(***************************************************************************)
\* The lock path process p locks for codebasePath.
LockPathOf(p, codebasePath) == getCodebaseLockPath(Cwd(p), codebasePath)

\* Process p has an entry of its Map for the lock file path.
HasEntryFor(p, path) ==
    \E i \in 1..Len(heldCodebaseLocks[p]) : heldCodebaseLocks[p][i].lockPath = path

\* The entries of p's Map under the key codebasePath.
EntriesOf(p, codebasePath) ==
    {i \in 1..Len(heldCodebaseLocks[p]) : heldCodebaseLocks[p][i].key = codebasePath}

\* C1: mutual exclusion on a resource lock: in no reachable state do two
\* different processes both have the same resource (the same lock file) in
\* their held-lock maps.
C1_MutualExclusion ==
    \A path \in CodebaseLockPaths : \A p, q \in Procs :
        (p # q) => ~(HasEntryFor(p, path) /\ HasEntryFor(q, path))

\* C2: leader invariant: a process whose isLeader flag is true holds the
\* OS-level leader lock, and at most one process has isLeader true.
C2_LeaderInvariant ==
    /\ \A p \in Procs : isLeader[p] => lockFile[LOCK_FILE] = p
    /\ \A p, q \in Procs : (isLeader[p] /\ isLeader[q]) => p = q

\* The acquireLock() call of p's application has had its effect (while
\* raceOnly).
RaceEnded(p) == isLeader[p] \/ lockInterval[p]

\* C3: leader race: when the processes each call acquireLock() once against
\* the free leader lock, a call that returns true leaves its process the
\* only leader, holding the leader lock; a call that returns false leaves
\* its process a follower with the retry timer scheduled, another process
\* being leader; and once the calls have returned exactly one process is
\* leader and every other one is a follower with its timer scheduled.
C3_LeaderRace ==
    raceOnly =>
        /\ \A p \in Procs :
             last = Ret(p, "acquireLock", NoId, "true") =>
                 /\ isCurrentProcessLeader(p)
                 /\ lockFile[LOCK_FILE] = p
                 /\ \A q \in Procs \ {p} : ~isCurrentProcessLeader(q)
        /\ \A q \in Procs :
             last = Ret(q, "acquireLock", NoId, "false") =>
                 /\ ~isCurrentProcessLeader(q)
                 /\ lockInterval[q]
                 /\ \E p \in Procs \ {q} :
                      isCurrentProcessLeader(p) /\ lockFile[LOCK_FILE] = p
        /\ (\A p \in Procs : RaceEnded(p)) =>
             \E p \in Procs :
                 /\ isCurrentProcessLeader(p)
                 /\ lockFile[LOCK_FILE] = p
                 /\ \A q \in Procs \ {p} :
                      ~isCurrentProcessLeader(q) /\ lockInterval[q]

\* C3, witness: p1 won the race, p2's call has just returned false and its
\* retry timer is scheduled.
C3_Witness ==
    /\ raceOnly
    /\ isLeader["p1"] /\ ~isLeader["p2"] /\ lockInterval["p2"]
    /\ last = Ret("p2", "acquireLock", NoId, "false")

\* C4: shutdown completeness: a process that receives SIGINT or SIGTERM
\* while its memory knows every lock it holds (it is leader if it holds the
\* leader lock, and has an entry for every codebase lock it holds), and that
\* runs nothing but the listener from then on, holds no lock at the OS
\* level when it exits.
C4_ShutdownCompleteness ==
    \A p \in Procs :
        (/\ status[p] = "exited"
         /\ exited[p].by \in Signals
         /\ exited[p].solo
         /\ exited[p].held0.known) => exited[p].held = {}

\* C4, witness: a process that was leader and held two codebase locks when
\* the signal arrived has exited with none of the three still held.
C4_Witness ==
    \E p \in Procs :
        /\ status[p] = "exited"
        /\ exited[p].by = "SIGTERM" /\ exited[p].solo /\ exited[p].held0.known
        /\ exited[p].held0.n = 3
        /\ exited[p].held = {}
        /\ \A path \in LockPaths : lockFile[path] # p

\* C5: releaseCodebaseLock(r), called by a process that has r in its Map,
\* leaves no entry for r when it returns, whether the unlock succeeded or
\* failed.
C5_ReleaseRemovesEntry ==
    \A p \in Procs : \A id \in Ids :
        last = Ret(p, "releaseCodebaseLock", id, "void") =>
            ~MapHas(heldCodebaseLocks[p], id)

\* C6: releaseLock() called while the process is leader leaves isLeader
\* false when it returns, also when the OS-level unlock fails.
C6_ReleaseLeavesFollower ==
    \A p \in Procs :
        last = Ret(p, "releaseLock", NoId, "void") => ~isLeader[p]

\* C7: stale-safety: isCodebaseLocked(r) never returns true for a lock file
\* that is on disk with no live holder.
C7_StaleNotLocked ==
    \A p \in Procs : \A id \in Ids :
        last = Ret(p, "isCodebaseLocked", id, "true") =>
            lockFile[LockPathOf(p, id)] # Stale

\* C8: held-lock map invariant: between operations, an identifier is a key
\* of heldCodebaseLocks iff the process holds the OS-level lock on the lock
\* file derived from the normalized identifier.
C8_MapInvariant ==
    \A p \in Procs :
        (Running(p) /\ tasks[p] = EmptyBag) =>
            \A id \in Ids :
                MapHas(heldCodebaseLocks[p], id) <=> (lockFile[LockPathOf(p, id)] = p)

\* C9: idempotent acquisition: once acquireCodebaseLock(r) has returned
\* true, r is a key of the Map, so that the next call returns true without
\* calling the adapter, and the process holds one entry and the OS-level
\* lock for r.
C9_IdempotentAcquire ==
    \A p \in Procs : \A id \in Ids :
        last = Ret(p, "acquireCodebaseLock", id, "true") =>
            /\ Cardinality(EntriesOf(p, id)) = 1
            /\ lockFile[MapGet(heldCodebaseLocks[p], id)] = p

\* An acquireCodebaseLock(id) of process p returns in this step.
AcquireReturns(p, id) ==
    /\ last' # last
    /\ last'.proc = p /\ last'.fn = "acquireCodebaseLock" /\ last'.id = id

\* C10: release-then-reacquire: when releaseCodebaseLock(r) of a held r is
\* followed at once by acquireCodebaseLock(r) in the same process, the
\* acquire returns true and leaves one entry for r, backed by an OS-level
\* lock the process holds.
C10_ReleaseThenReacquire ==
    [][\A p \in Procs : \A id \in Ids :
          (last = Ret(p, "releaseCodebaseLock", id, "void") /\ AcquireReturns(p, id)) =>
              /\ last'.val = "true"
              /\ Cardinality({i \in 1..Len(heldCodebaseLocks'[p]) :
                                heldCodebaseLocks'[p][i].key = id}) = 1
              /\ lockFile'[LockPathOf(p, id)] = p]_vars

\* Process q is a follower with its retry timer scheduled, and the leader
\* lock is there to take: free, or left stale by a release that failed or
\* by a leader that ended.
FollowerMayTake(q) ==
    /\ Running(q)
    /\ ~isLeader[q]
    /\ lockInterval[q]
    /\ lockFile[LOCK_FILE] \in {Free, Stale}

\* C11: follower retry liveness: a follower whose retry timer is scheduled,
\* once the leader lock has been released, eventually becomes leader, unless
\* another process takes the lock or the follower itself ends; timer ticks
\* are scheduled fairly and the adapter answers.
C11_FollowerRetryLiveness ==
    \A q \in Procs :
        FollowerMayTake(q) ~>
            \/ isLeader[q]
            \/ lockFile[LOCK_FILE] \in Procs \ {q}
            \/ ~Running(q)

\* C11, witness: the leader p1 has just released the leader lock and a tick
\* of the follower p2 has called acquireLock, which awaits the adapter.
C11_Witness ==
    /\ last = Ret("p1", "releaseLock", NoId, "void")
    /\ lockFile[LOCK_FILE] = Free
    /\ FollowerMayTake("p2")
    /\ Suspended("p2", "acquireLock", {"none"}) # {}

\* C12: lock-file naming: identifiers that normalize to the same path get
\* the same lock file, and the lock file of an identifier depends on the
\* identifier alone: whichever processes hold locks, entries under the same
\* identifier, or under identifiers with the same normalized path, name the
\* same lock file.
C12_LockFileNaming ==
    \A p, q \in Procs :
        \A i \in 1..Len(heldCodebaseLocks[p]) : \A j \in 1..Len(heldCodebaseLocks[q]) :
            LET e == heldCodebaseLocks[p][i]
                f == heldCodebaseLocks[q][j]
            IN  (e.key = f.key \/ resolve(Cwd(p), e.key) = resolve(Cwd(q), f.key))
                    => e.lockPath = f.lockPath

\* C13: the retry timer is never left running once the process has the
\* leader lock: a process that holds the leader lock has no interval
\* scheduled, overlapping acquireLock calls of one process included.
C13_NoTimerWhileLeader ==
    \A p \in Procs :
        (isLeader[p] \/ lockFile[LOCK_FILE] = p) => intervals[p] = 0

\* C14: at most one retry timer is outstanding per process: a process has
\* at most one interval scheduled, the one lockInterval holds, however many
\* of its acquireLock() calls fail, one after the other or overlapping.
C14_AtMostOneTimer ==
    \A p \in Procs :
        /\ intervals[p] <= 1
        /\ lockInterval[p] <=> (intervals[p] = 1)

\* C14, witness: an acquireLock() of p2 has failed with the interval already
\* scheduled (the call was made by a tick, or overlapped the first failure),
\* and a further call of p2 is in flight.
C14_Witness ==
    /\ ~raceOnly
    /\ lockFile[LOCK_FILE] = "p1"
    /\ last = Ret("p2", "acquireLock", NoId, "false")
    /\ intervals["p2"] = 1
    /\ Suspended("p2", "acquireLock", {"none"}) # {}

\* No acquireLock or releaseLock call of process p is in flight.
LeaderCallsDone(p) ==
    \A t \in BagToSet(tasks[p]) : t.fn \notin {"acquireLock", "releaseLock"}

\* C20: no leaked leadership: whenever no acquireLock or releaseLock call
\* of a process is in flight, the process holds the OS-level leader lock
\* only if its isLeader flag is true.
C20_NoLeakedLeadership ==
    \A p \in Procs :
        (Running(p) /\ LeaderCallsDone(p) /\ lockFile[LOCK_FILE] = p) => isLeader[p]

\* C15: retry-timer lifecycle: between operations, the retry timer of a
\* process exists iff its isLeader is false and at least one of its
\* acquisition attempts has failed.
C15_TimerLifecycle ==
    \A p \in Procs :
        (Running(p) /\ tasks[p] = EmptyBag) =>
            (lockInterval[p] <=> (~isLeader[p] /\ failed[p] # "no"))

\* C15, amended: the retry timer of a process exists iff its isLeader is
\* false and the latest of its acquisition attempts to complete has failed:
\* an attempt that succeeds clears the timer and releaseLock does not
\* schedule it again.
C15_TimerLifecycleAmended ==
    \A p \in Procs :
        Running(p) => (lockInterval[p] <=> (~isLeader[p] /\ failed[p] = "latest"))

\* C15, witness: p2 failed to acquire, then acquired, then released: it is
\* a follower with no retry timer.
C15_Witness ==
    /\ last = Ret("p2", "releaseLock", NoId, "void")
    /\ tasks["p2"] = EmptyBag
    /\ failed["p2"] = "earlier"
    /\ ~isLeader["p2"]
    /\ ~lockInterval["p2"]

\* The identifiers process p has locked or is locking, each with the lock
\* file path computed for it.
LockFileUses(p) ==
    {[id |-> heldCodebaseLocks[p][i].key, lockPath |-> heldCodebaseLocks[p][i].lockPath] :
        i \in 1..Len(heldCodebaseLocks[p])}
    \cup {[id |-> t.id, lockPath |-> t.lockPath] :
            t \in Suspended(p, "acquireCodebaseLock", {"none"})}

\* C12, amended: identifiers that resolve to the same absolute path, in the
\* working directories of the processes that pass them, get the same lock
\* file, whatever else the state of those processes is; so an acquisition
\* fails while another process holds the lock of the same absolute path
\* under any spelling.
C12_LockFileNamingAmended ==
    /\ [](\A p, q \in Procs : \A u \in LockFileUses(p) : \A v \in LockFileUses(q) :
            resolve(Cwd(p), u.id) = resolve(Cwd(q), v.id) => u.lockPath = v.lockPath)
    /\ [][\A p \in Procs : \A t \in Suspended(p, "acquireCodebaseLock", {"none"}) :
            (/\ tasks' = DropTask(p, t)
             /\ status'[p] = "running"
             /\ \E q \in Procs \ {p} : \E i \in 1..Len(heldCodebaseLocks[q]) :
                    LET e == heldCodebaseLocks[q][i] IN
                    /\ resolve(Cwd(q), e.key) = resolve(Cwd(p), t.id)
                    /\ lockFile[e.lockPath] = q)
            => last' = Ret(p, "acquireCodebaseLock", t.id, "false")]_vars

\* C12, witness: p1 holds the lock of /w/a as "a", and the acquisition of
\* p2 under the spelling "/w/./a" has just failed on the same lock file.
C12_Witness ==
    /\ MapHas(heldCodebaseLocks["p1"], "a")
    /\ lockFile[LockPathOf("p1", "a")] = "p1"
    /\ LockPathOf("p2", "/w/./a") = LockPathOf("p1", "a")
    /\ last = Ret("p2", "acquireCodebaseLock", "/w/./a", "false")


\* The listener of a signal has nothing left to do but process.exit():
\* it waits in releaseLock, or the process is not leader and no key of the
\* listener's snapshot is in the Map any more.
CleanupDone(p) ==
    \/ Suspended(p, "releaseLock", Signals) # {}
    \/ /\ ~isLeader[p]
       /\ \/ heldCodebaseLocks[p] = <<>>
          \/ \E t \in Suspended(p, "releaseCodebaseLock", Signals) :
               \A i \in 1..Len(t.keys) : ~MapHas(heldCodebaseLocks[p], t.keys[i])

\* C16: shutdown ordering: a signal listener reaches releaseLock only when
\* every key of its snapshot of the Map has been visited, and then, if the
\* process's memory recorded every lock it held when the signal arrived and
\* nothing else ran, the process holds no codebase lock any more; a process
\* exits by a signal only from a listener that has finished both steps.
C16_ShutdownOrdering ==
    /\ [](\A p \in Procs : \A t \in Suspended(p, "releaseLock", Signals) :
            /\ t.keys = <<>>
            /\ (t.solo /\ t.held0.known) => HeldBy(lockFile, p) \subseteq {LOCK_FILE})
    /\ [][\A p \in Procs :
            (Running(p) /\ status'[p] = "exited" /\ exited'[p].by \in Signals)
                => CleanupDone(p)]_vars

\* C16, witness: the listener of a process that was leader and held two
\* codebase locks waits in releaseLock, only the leader lock still held.
C16_Witness ==
    \E p \in Procs : \E t \in Suspended(p, "releaseLock", Signals) :
        /\ t.solo /\ t.held0.known /\ t.held0.n = 3
        /\ HeldBy(lockFile, p) = {LOCK_FILE}

\* The signal listeners of p that have not finished.
Listeners(p) ==
    [t \in {u \in BagToSet(tasks[p]) : u.sig \in Signals} |-> CopiesIn(t, tasks[p])]

\* C17: shutdown runs at most once: a process never has more than one
\* signal listener under way, so no lock is passed to unlock by two of them.
C17_ShutdownOnce ==
    \A p \in Procs : BagCardinality(Listeners(p)) <= 1

\* How many calls like t the process has suspended (solo or not).
Pending(bag, t) ==
    CopiesIn([t EXCEPT !.solo = TRUE], bag) + CopiesIn([t EXCEPT !.solo = FALSE], bag)

\* The keys of a snapshot that are in the Map m.
StillInMap(m, keys) == SelectSeq(keys, LAMBDA k : MapHas(m, k))

\* C18: bulk release isolates failures: when the unlock a listener's
\* releaseAllCodebaseLocks waits for is answered, by success or by failure,
\* the listener goes on to the next key of its snapshot that is still in the
\* Map and, when there is none, to releaseLock or process.exit().
C18_BulkReleaseIsolated ==
    [][\A p \in Procs : \A t \in Suspended(p, "releaseCodebaseLock", Signals) :
        (status'[p] = "running" /\ Pending(tasks'[p], t) < Pending(tasks[p], t)) =>
            LET rest == StillInMap(heldCodebaseLocks'[p], t.keys) IN
            IF rest # <<>>
            THEN \E u \in BagToSet(tasks'[p]) :
                    /\ u.fn = "releaseCodebaseLock" /\ u.sig = t.sig
                    /\ u.id = Head(rest) /\ u.keys = Tail(rest)
            ELSE \E u \in BagToSet(tasks'[p]) :
                    u.fn = "releaseLock" /\ u.sig = t.sig]_vars

\* C18, witness: the unlock of the first key has failed (its entry is still
\* in the Map, its lock file stale) and the listener waits for the unlock of
\* the second.
C18_Witness ==
    \E p \in Procs : \E t \in Suspended(p, "releaseCodebaseLock", Signals) :
        \E i \in 1..Len(heldCodebaseLocks[p]) :
            /\ heldCodebaseLocks[p][i].key # t.id
            /\ lockFile[heldCodebaseLocks[p][i].lockPath] = Stale
            /\ lockFile[t.lockPath] = p
            /\ t.solo /\ t.held0.known

\* The suspended call t of p is answered in this step and p runs on.
Answered(p, t) ==
    /\ tasks' = DropTask(p, t)
    /\ status'[p] = "running"

\* C19: a failed acquisition is a value and changes nothing: when the lock
\* call of acquireCodebaseLock(r) fails, the call returns false and the Map,
\* the leader flag, the retry timer and the lock files are as before; when
\* the lock call of acquireLock() fails, the call returns false and the Map
\* and the lock files are as before.
C19_FailedAcquireFrame ==
    [][\A p \in Procs :
        /\ \A t \in Suspended(p, "acquireCodebaseLock", {"none"}) :
             (Answered(p, t) /\ ~lockSucceeds(lockFile, t.lockPath)) =>
                /\ last' = Ret(p, "acquireCodebaseLock", t.id, "false")
                /\ UNCHANGED <<heldCodebaseLocks, isLeader, lockInterval,
                               intervals, lockFile>>
        /\ \A t \in Suspended(p, "acquireLock", {"none"}) :
             (Answered(p, t) /\ ~lockSucceeds(lockFile, LOCK_FILE)) =>
                /\ last' = Ret(p, "acquireLock", NoId, "false")
                /\ UNCHANGED <<heldCodebaseLocks, lockFile>>]_vars

\* C19, witness: a leader that holds a codebase lock has just been refused
\* another one, held by the other process.
C19_Witness ==
    \E p \in Procs : \E id \in Ids :
        /\ last = Ret(p, "acquireCodebaseLock", id, "false")
        /\ isLeader[p]
        /\ heldCodebaseLocks[p] # <<>>
        /\ ~MapHas(heldCodebaseLocks[p], id)
        /\ lockFile[getCodebaseLockPath(Cwd(p), id)] \in Procs \ {p}
=============================================================================
